---- MODULE Spec2Model ----
(***************************************************************************)
(* Model of ImtConflictPerfTestGen.py: a one-pass generator that reads one *)
(* command-line argument (imt_size) and prints a Java benchmark source.    *)
(*                                                                         *)
(* A character is a one-character string, a text is a sequence of          *)
(* characters.  Every print() call appends one record to `out`:            *)
(*   stmt : the source line of the print() call,                           *)
(*   tmpl : the literal (format template) it prints,                       *)
(*   args : the texts str.format substitutes into the template.            *)
(***************************************************************************)
EXTENDS Integers, Sequences, FiniteSets, TLC

VARIABLES argv, seed, pc, i, imt_size, out, exit_status, prev

vars == <<argv, seed, pc, i, imt_size, out, exit_status, prev>>

\* ------------------------------------------------------------------ bounds

\* Longest command-line argument enumerated.
MaxArgLen == 2

\* Values of the interpreter's per-process hash seed (PYTHONHASHSEED): part
\* of a process's environment, read by no statement of the script.
Seeds == {0, 1}

\* Characters an argument is built from.
ArgChars == {"0", "1", "2", "-", "+", " ", "_", "a"}

\* --------------------------------------------------------------- constants

max_conflict_depth == 20

license == "/* Copyright 2016 The Android Open Source Project ... Apache License, Version 2.0 ... */"

imports == "import android.perftests.utils.BenchmarkState; ... import org.junit.runner.RunWith;"

description == "/** This file is script-generated by ImtConflictPerfTestGen.py. ... Each interface has 64 methods ... */"

\* ------------------------------------------------------- text conversions

DigitChars == <<"0", "1", "2", "3", "4", "5", "6", "7", "8", "9">>

IsDigit(c) == \E d \in 1..10 : DigitChars[d] = c

DigitVal(c) == (CHOOSE d \in 1..10 : DigitChars[d] = c) - 1

RECURSIVE StrNat(_)
StrNat(n) ==
    IF n < 10 THEN <<DigitChars[n + 1]>>
    ELSE Append(StrNat(n \div 10), DigitChars[(n % 10) + 1])

\* "{}".format(n) of an int: the decimal digits, "-" first when negative.
Str(n) == IF n < 0 THEN <<"-">> \o StrNat(-n) ELSE StrNat(n)

\* "{:02d}".format(n): zero-padded to width two; the sign counts in the
\* width, so a negative number is never padded.
Fmt02d(n) ==
    IF n < 0 THEN <<"-">> \o StrNat(-n)
    ELSE (IF Len(StrNat(n)) < 2 THEN <<"0">> ELSE <<>>) \o StrNat(n)

IsSpace(c) == c = " "

RECURSIVE LStrip(_)
LStrip(s) == IF s # <<>> /\ IsSpace(s[1]) THEN LStrip(Tail(s)) ELSE s

RECURSIVE RStrip(_)
RStrip(s) ==
    IF s # <<>> /\ IsSpace(s[Len(s)]) THEN RStrip(SubSeq(s, 1, Len(s) - 1)) ELSE s

\* The digits part of an int literal: digits, single underscores between them.
ValidBody(b) ==
    /\ b # <<>>
    /\ IsDigit(b[1])
    /\ IsDigit(b[Len(b)])
    /\ \A k \in 1..Len(b) : IsDigit(b[k]) \/ b[k] = "_"
    /\ \A k \in 1..(Len(b) - 1) : ~(b[k] = "_" /\ b[k + 1] = "_")

RECURSIVE BodyVal(_, _)
BodyVal(b, acc) ==
    IF b = <<>> THEN acc
    ELSE IF b[1] = "_" THEN BodyVal(Tail(b), acc)
    ELSE BodyVal(Tail(b), 10 * acc + DigitVal(b[1]))

\* int(s): [ok |-> FALSE] stands for ValueError.
IntParse(s) ==
    LET t == RStrip(LStrip(s))
        signed == t # <<>> /\ t[1] \in {"+", "-"}
        b == IF signed THEN Tail(t) ELSE t
        v == BodyVal(b, 0)
    IN  IF ValidBody(b)
        THEN [ok |-> TRUE, val |-> IF signed /\ t[1] = "-" THEN -v ELSE v]
        ELSE [ok |-> FALSE, val |-> 0]

\* Mutant: a missing argument falls back to the IMT size of the description.
ParseArgvDefault64(a) == IF a = <<>> THEN [ok |-> TRUE, val |-> 64] ELSE IntParse(a[1])

\* int(sys.argv[1]) with a is sys.argv[1:]: no element is IndexError.
ParseArgv(a) == IF a = <<>> THEN [ok |-> FALSE, val |-> 0] ELSE IntParse(a[1])

\* sep.join(items)
RECURSIVE Join(_, _)
Join(sep, items) ==
    IF items = <<>> THEN <<>>
    ELSE IF Len(items) = 1 THEN items[1]
    ELSE items[1] \o sep \o Join(sep, Tail(items))

\* ------------------------------------------------------------ the output

\* One print() call.
P(stmt, tmpl, args) == [stmt |-> stmt, tmpl |-> tmpl, args |-> args]

UsageLines ==
    <<P(24, "Usage: python ImtConflictPerfTestGen.py <IMT_SIZE>", <<>>)>>

LicenseLines == <<P(59, license, <<>>), P(60, "package android.libcore;", <<>>)>>

ImportLines == <<P(73, imports, <<>>)>>

DescriptionLines == <<P(74, description, <<>>)>>

ClassOpenLines ==
    << P(76, "@RunWith(AndroidJUnit4.class)", <<>>),
       P(77, "@LargeTest", <<>>),
       P(78, "public class ImtConflictPerfTest {", <<>>),
       P(79, "    @Rule", <<>>),
       P(80, "    public PerfStatusReporter mPerfStatusReporter = new PerfStatusReporter();", <<>>),
       P(81, "", <<>>) >>

SetupOpenLines ==
    << P(83, "    @Before", <<>>),
       P(84, "    public void setup() {", <<>>) >>

\* Mutant: range(i) for range(i+1) at line 87.
SetupBlockShort(n, c) ==
    <<P(86, "        C{0} c{0} = new C{0}();", <<Str(c)>>)>>
    \o [j \in 1..c |->
          P(88, "        callF{}(c{});", <<Str(n * (j - 1)), Str(c)>>)]

\* Body of the loop at line 85 for class c: the warm-up block of C{c}.
SetupBlock(n, c) ==
    <<P(86, "        C{0} c{0} = new C{0}();", <<Str(c)>>)>>
    \o [j \in 1..(c + 1) |->
          P(88, "        callF{}(c{});", <<Str(n * (j - 1)), Str(c)>>)]

SetupCloseLines == <<P(89, "    }", <<>>)>>

\* Mutant: imt_size * j % (i + 1) for imt_size * (j % (i + 1)) at line 101.
TestCasePrecedence(n, c) ==
    << P(93, "    @Test", <<>>),
       P(94, "    public void timeConflictDepth{:02d}() {{", <<Fmt02d(c + 1)>>),
       P(95, "        C{0} c{0} = new C{0}();", <<Str(c)>>),
       P(96, "        BenchmarkState state = mPerfStatusReporter.getBenchmarkState();", <<>>),
       P(97, "        while (state.keepRunning()) {", <<>>) >>
    \o [j \in 1..max_conflict_depth |->
          P(101, "            callF{}(c{});", <<Str((n * (j - 1)) % (c + 1)), Str(c)>>)]
    \o << P(102, "        }", <<>>),
          P(103, "    }", <<>>) >>

\* Mutant: imt_size * j at line 101, the modulo forgotten.
TestCaseNoCycle(n, c) ==
    << P(93, "    @Test", <<>>),
       P(94, "    public void timeConflictDepth{:02d}() {{", <<Fmt02d(c + 1)>>),
       P(95, "        C{0} c{0} = new C{0}();", <<Str(c)>>),
       P(96, "        BenchmarkState state = mPerfStatusReporter.getBenchmarkState();", <<>>),
       P(97, "        while (state.keepRunning()) {", <<>>) >>
    \o [j \in 1..max_conflict_depth |->
          P(101, "            callF{}(c{});", <<Str(n * (j - 1)), Str(c)>>)]
    \o << P(102, "        }", <<>>),
          P(103, "    }", <<>>) >>

\* Body of the loop at line 92 for class c: the benchmark of depth c+1.
TestCase(n, c) ==
    << P(93, "    @Test", <<>>),
       P(94, "    public void timeConflictDepth{:02d}() {{", <<Fmt02d(c + 1)>>),
       P(95, "        C{0} c{0} = new C{0}();", <<Str(c)>>),
       P(96, "        BenchmarkState state = mPerfStatusReporter.getBenchmarkState();", <<>>),
       P(97, "        while (state.keepRunning()) {", <<>>) >>
    \o [j \in 1..max_conflict_depth |->
          P(101, "            callF{}(c{});", <<Str(n * ((j - 1) % (c + 1))), Str(c)>>)]
    \o << P(102, "        }", <<>>),
          P(103, "    }", <<>>) >>

\* Mutant: the helper is named after i, not after imt_size*i.
HelperUnscaled(n, c) ==
    <<P(107, "    public void callF{0}(I{1} i) {{ i.f{0}(); }}", <<Str(c), Str(c)>>)>>

\* Body of the loop at line 106 for interface c.
Helper(n, c) ==
    <<P(107, "    public void callF{0}(I{1} i) {{ i.f{0}(); }}", <<Str(n * c), Str(c)>>)>>

\* Mutant: range(i) for range(i+1) at line 111.
InterfacesShort(c) == Join(<<",", " ">>, [j \in 1..c |-> <<"I">> \o Str(j - 1)])

\* Mutant: the names are collected in a set before the join, so their order
\* follows the process's hash seed.
InterfacesHashOrder(c) ==
    Join(<<",", " ">>,
         [j \in 1..(c + 1) |->
            <<"I">> \o Str(IF seed % 2 = 0 THEN j - 1 ELSE c + 1 - j)])

\* The list joined at line 111.
Interfaces(c) == Join(<<",", " ">>, [j \in 1..(c + 1) |-> <<"I">> \o Str(j - 1)])

\* Body of the loop at line 110 for class c.
ClassDef(c) ==
    <<P(112, "    static class C{} implements {} {{}}", <<Str(c), Interfaces(c)>>)>>

\* Mutant: f{i + j} for f{i*imt_size + j} at line 118.
InterfaceDefNoStride(n, c) ==
    <<P(116, "    interface I{} {{", <<Str(c)>>)>>
    \o [j \in 1..n |-> P(118, "        default void f{}() {{}}", <<Str(c + (j - 1))>>)]
    \o <<P(119, "    }", <<>>)>>

\* Body of the loop at line 115 for interface c; range(n) is empty for n <= 0.
InterfaceDef(n, c) ==
    <<P(116, "    interface I{} {{", <<Str(c)>>)>>
    \o [j \in 1..n |-> P(118, "        default void f{}() {{}}", <<Str(c * n + (j - 1))>>)]
    \o <<P(119, "    }", <<>>)>>

CloseLines == <<P(121, "}", <<>>)>>

\* ------------------------------------------------------------- the script

\* Program points: the source line of the next statement to run.
LoopPoints == {"L85", "L92", "L106", "L110", "L115"}

\* Mutant: the class definitions loop moved in front of the helpers loop.
SuccessorClassesFirst(p) ==
    CASE p = "L59"  -> "L73"
      [] p = "L73"  -> "L74"
      [] p = "L74"  -> "L76"
      [] p = "L76"  -> "L83"
      [] p = "L83"  -> "L85"
      [] p = "L85"  -> "L89"
      [] p = "L89"  -> "L92"
      [] p = "L92"  -> "L110"
      [] p = "L110" -> "L106"
      [] p = "L106" -> "L115"
      [] p = "L115" -> "L121"
      [] p = "L121" -> "done"

\* The statement that follows a statement (a loop: once it is exhausted).
Successor(p) ==
    CASE p = "L59"  -> "L73"
      [] p = "L73"  -> "L74"
      [] p = "L74"  -> "L76"
      [] p = "L76"  -> "L83"
      [] p = "L83"  -> "L85"
      [] p = "L85"  -> "L89"
      [] p = "L89"  -> "L92"
      [] p = "L92"  -> "L106"
      [] p = "L106" -> "L110"
      [] p = "L110" -> "L115"
      [] p = "L115" -> "L121"
      [] p = "L121" -> "done"

RECURSIVE Texts(_)
\* All texts of length at most k over ArgChars.
Texts(k) ==
    IF k = 0 THEN {<<>>}
    ELSE LET shorter == Texts(k - 1)
         IN  shorter \cup {Append(t, c) : t \in shorter, c \in ArgChars}

\* sys.argv[1:]: no argument, or one argument (further ones are never read).
ArgvSet == {<<>>} \cup {<<t>> : t \in Texts(MaxArgLen)}

\* What is kept of an earlier run of the script, for comparison only: the
\* script itself keeps nothing from one run to the next.
NoRun == [ran |-> FALSE, argv |-> <<>>, seed |-> 0, out |-> <<>>, exit_status |-> <<>>]

\* A fresh process: nothing printed, imt_size not yet bound (never read
\* before line 22 binds it), no exit status yet.
Start(a, s) ==
    /\ argv = a
    /\ seed = s
    /\ pc = "L21"
    /\ i = 0
    /\ imt_size = 0
    /\ out = <<>>
    /\ exit_status = <<>>

Init ==
    /\ \E a \in ArgvSet, s \in Seeds : Start(a, s)
    /\ prev = NoRun

Emit(lines) == out' = out \o lines

\* Lines 21-22: the argument converts; imt_size is bound.
ParseArg ==
    /\ pc = "L21"
    /\ ParseArgv(argv).ok
    /\ imt_size' = ParseArgv(argv).val
    /\ pc' = "L59"
    /\ UNCHANGED <<argv, seed, i, out, exit_status, prev>>

\* Lines 23-25: IndexError or ValueError: usage message, sys.exit(1).
ArgError ==
    /\ pc = "L21"
    /\ ~ParseArgv(argv).ok
    /\ Emit(UsageLines)
    /\ exit_status' = <<1>>
    /\ pc' = "exited"
    /\ UNCHANGED <<argv, seed, i, imt_size, prev>>

\* A straight-line run of print() calls.
Straight(p, lines) ==
    /\ pc = p
    /\ Emit(lines)
    /\ pc' = Successor(p)
    /\ UNCHANGED <<argv, seed, i, imt_size, exit_status, prev>>

\* One iteration of `for i in range(max_conflict_depth)` at p.
Iterate(p, lines) ==
    /\ pc = p
    /\ i < max_conflict_depth
    /\ Emit(lines)
    /\ i' = i + 1
    /\ UNCHANGED <<argv, seed, pc, imt_size, exit_status, prev>>

EmitLicense == Straight("L59", LicenseLines)
EmitImports == Straight("L73", ImportLines)
EmitDescription == Straight("L74", DescriptionLines)
EmitClassOpen == Straight("L76", ClassOpenLines)
EmitSetupOpen == Straight("L83", SetupOpenLines)
EmitSetupBlock == Iterate("L85", SetupBlock(imt_size, i))
EmitSetupClose == Straight("L89", SetupCloseLines)
EmitTestCase == Iterate("L92", TestCase(imt_size, i))
EmitHelper == Iterate("L106", Helper(imt_size, i))
EmitClassDef == Iterate("L110", ClassDef(i))
EmitInterfaceDef == Iterate("L115", InterfaceDef(imt_size, i))

\* range(max_conflict_depth) is exhausted: on to the statement after the loop.
LoopExit ==
    /\ pc \in LoopPoints
    /\ i >= max_conflict_depth
    /\ pc' = Successor(pc)
    /\ i' = 0
    /\ UNCHANGED <<argv, seed, imt_size, out, exit_status, prev>>

\* Line 121, then the end of the script: exit status 0.
EmitClose ==
    /\ pc = "L121"
    /\ Emit(CloseLines)
    /\ pc' = Successor("L121")
    /\ exit_status' = <<0>>
    /\ UNCHANGED <<argv, seed, i, imt_size, prev>>

Next ==
    \/ ParseArg
    \/ ArgError
    \/ EmitLicense
    \/ EmitImports
    \/ EmitDescription
    \/ EmitClassOpen
    \/ EmitSetupOpen
    \/ EmitSetupBlock
    \/ EmitSetupClose
    \/ EmitTestCase
    \/ EmitHelper
    \/ EmitClassDef
    \/ EmitInterfaceDef
    \/ LoopExit
    \/ EmitClose

Spec == Init /\ [][Next]_vars

\* The script is invoked again, in a fresh process with its own hash seed,
\* on the same input: after a successful run the same imt_size (written in
\* decimal), after a failed run the same argument list.
Rerun ==
    /\ pc \in {"done", "exited"}
    /\ ~prev.ran
    /\ prev' = [ran |-> TRUE, argv |-> argv, seed |-> seed, out |-> out,
                exit_status |-> exit_status]
    /\ argv' = IF pc = "done" THEN <<Str(imt_size)>> ELSE argv
    /\ seed' \in Seeds
    /\ pc' = "L21"
    /\ i' = 0
    /\ imt_size' = 0
    /\ out' = <<>>
    /\ exit_status' = <<>>

NextRerun == Next \/ Rerun

SpecRerun == Init /\ [][NextRerun]_vars

\* ------------------------------------------------------ reading the output

\* The number a decimal text denotes.
RECURSIVE Num(_)
Num(t) ==
    IF t = <<>> THEN 0
    ELSE 10 * Num(SubSeq(t, 1, Len(t) - 1)) + DigitVal(t[Len(t)])

Val(t) == IF t # <<>> /\ t[1] = "-" THEN -Num(Tail(t)) ELSE Num(t)

\* text.split(", ")
RECURSIVE SplitList(_, _)
SplitList(t, k) ==
    IF k >= Len(t) THEN <<t>>
    ELSE IF t[k] = "," /\ t[k + 1] = " "
         THEN <<SubSeq(t, 1, k - 1)>> \o SplitList(SubSeq(t, k + 2, Len(t)), 1)
         ELSE SplitList(t, k + 1)

\* Positions of the lines a statement printed, and those lines in order.
Pos(s) == {p \in 1..Len(out) : out[p].stmt = s}

LinesOf(s) == SelectSeq(out, LAMBDA l : l.stmt = s)

\* First position from q on holding a line of one of the statements S
\* (Len(out) + 1 when there is none).
RECURSIVE Scan(_, _)
Scan(q, S) == IF q > Len(out) \/ out[q].stmt \in S THEN q ELSE Scan(q + 1, S)

\* The lines of statement s strictly between position p and the next line of S.
Between(p, S, s) ==
    SelectSeq(SubSeq(out, p + 1, Scan(p + 1, S) - 1), LAMBDA l : l.stmt = s)

Depths == 0..(max_conflict_depth - 1)

Finished == pc = "done"

\* Interface block c (0-based): its header position and its method names.
IfacePos(c) == CHOOSE p \in Pos(116) : Val(out[p].args[1]) = c

IfaceMethods(p) == Between(p, {116, 119}, 118)

\* ------------------------------------------------------------------ claims

IsIntegerText(t) ==
    \E a \in 0..Len(t), b \in 0..Len(t) :
        /\ a + b < Len(t)
        /\ \A k \in 1..a : t[k] = " "
        /\ \A k \in (Len(t) - b + 1)..Len(t) : t[k] = " "
        /\ LET core == SubSeq(t, a + 1, Len(t) - b)
               body == IF core[1] \in {"+", "-"} THEN Tail(core) ELSE core
           IN  /\ body # <<>>
               /\ \A k \in 1..Len(body) :
                    \/ body[k] \in {DigitChars[d] : d \in 1..10}
                    \/ /\ body[k] = "_"
                       /\ 1 < k /\ k < Len(body)
                       /\ body[k - 1] # "_" /\ body[k + 1] # "_"

BadArgument == argv = <<>> \/ ~IsIntegerText(argv[1])

TestNews(p) == Between(p, {97, 103}, 95)

TestBodyStart(p) == Scan(p + 1, {97, 103})

TestBodyEnd(p) == Scan(TestBodyStart(p) + 1, {102, 103})

TestBody(p) == SubSeq(out, TestBodyStart(p) + 1, TestBodyEnd(p) - 1)

\* C3: the finished output holds, for every i in 0..19, the benchmark
\* method timeConflictDepth<i+1 as two digits>; it constructs one C{i} and
\* its loop body is exactly 20 calls, the j-th being callF{imt_size*(j mod (i+1))}(c{i}).
C3_BenchmarkCalls ==
    Finished =>
        LET heads == LinesOf(94)
        IN  /\ Len(heads) = max_conflict_depth
            /\ \A c \in Depths :
                 heads[c + 1].args =
                    << <<DigitChars[((c + 1) \div 10) + 1], DigitChars[((c + 1) % 10) + 1]>> >>
            /\ \A p \in Pos(94) :
                 LET c == Val(out[p].args[1]) - 1
                     body == TestBody(p)
                 IN  /\ Len(TestNews(p)) = 1
                     /\ Val(TestNews(p)[1].args[1]) = c
                     /\ out[TestBodyStart(p)].stmt = 97
                     /\ out[TestBodyEnd(p)].stmt = 102
                     /\ Len(body) = max_conflict_depth
                     /\ \A j \in 1..Len(body) :
                          /\ body[j].stmt = 101
                          /\ Val(body[j].args[1]) = imt_size * ((j - 1) % (c + 1))
                          /\ Val(body[j].args[2]) = c

C3_Witness ==
    /\ Finished
    /\ imt_size = 1
    /\ \E p \in Pos(94) :
         /\ out[p].args[1] = <<"0", "6">>
         /\ [j \in 1..max_conflict_depth |-> Val(TestBody(p)[j].args[1])]
              = <<0, 1, 2, 3, 4, 5, 0, 1, 2, 3, 4, 5, 0, 1, 2, 3, 4, 5, 0, 1>>

\* The warm-up calls that follow the construction line at position p.
WarmCalls(p) == Between(p, {86, 89}, 88)

\* C4: for every positive imt_size the finished setup() holds, for every i
\* in 0..19, one construction of C{i} followed by exactly i+1 calls on it,
\* the j-th being callF{imt_size*j}, all to different helpers.
C4_WarmUp ==
    (Finished /\ imt_size > 0) =>
        LET news == LinesOf(86)
        IN  /\ Len(news) = max_conflict_depth
            /\ \A c \in Depths : Val(news[c + 1].args[1]) = c
            /\ \A p \in Pos(86) :
                 LET c == Val(out[p].args[1])
                     calls == WarmCalls(p)
                 IN  /\ Len(calls) = c + 1
                     /\ \A j \in 1..Len(calls) :
                          /\ Val(calls[j].args[1]) = imt_size * (j - 1)
                          /\ Val(calls[j].args[2]) = c
                     /\ \A j, k \in 1..Len(calls) :
                          j # k => calls[j].args[1] # calls[k].args[1]
            /\ Cardinality(Pos(88)) = (max_conflict_depth * (max_conflict_depth + 1)) \div 2

C4_Witness ==
    /\ Finished
    /\ imt_size = 2
    /\ \E p \in Pos(86) :
         /\ out[p].args[1] = <<"1", "9">>
         /\ Len(WarmCalls(p)) = max_conflict_depth
         /\ WarmCalls(p)[max_conflict_depth].args[1] = <<"3", "8">>

\* C5: the finished output holds exactly one class C{i} for every i in
\* 0..19, and its implements-list is I0, I1, ..., Ii in that order, for
\* every imt_size.
C5_ClassInterfaces ==
    Finished =>
        LET cls == LinesOf(112)
        IN  /\ Len(cls) = max_conflict_depth
            /\ \A c \in Depths :
                 LET names == SplitList(cls[c + 1].args[2], 1)
                 IN  /\ Val(cls[c + 1].args[1]) = c
                     /\ Len(names) = c + 1
                     /\ \A j \in 1..Len(names) :
                          /\ names[j] # <<>>
                          /\ names[j][1] = "I"
                          /\ Tail(names[j]) # <<>>
                          /\ \A k \in 1..Len(Tail(names[j])) : IsDigit(Tail(names[j])[k])
                          /\ Val(Tail(names[j])) = j - 1

C5_Witness ==
    /\ Finished
    /\ imt_size < 0
    /\ \E p \in Pos(112) :
         /\ out[p].args[1] = <<"5">>
         /\ SplitList(out[p].args[2], 1) =
              << <<"I", "0">>, <<"I", "1">>, <<"I", "2">>, <<"I", "3">>, <<"I", "4">>, <<"I", "5">> >>

\* The helper declarations whose parameter type is I{c}.
HelpersFor(c) == {p \in Pos(107) : Val(out[p].args[2]) = c}

\* The interface blocks that declare a method named f{name}.
Declaring(name) ==
    {q \in Pos(116) :
        \E k \in 1..Len(IfaceMethods(q)) : IfaceMethods(q)[k].args[1] = name}

\* C6: on every run that generates output, for each interface i in 0..19
\* exactly one helper takes an I{i}; it is named callF{imt_size*i} and the
\* method f{imt_size*i} it invokes is declared by I{i} and by no other
\* interface.
C6_HelperOwnMethod ==
    Finished =>
        \A c \in Depths :
            /\ Cardinality(HelpersFor(c)) = 1
            /\ \A p \in HelpersFor(c) :
                 /\ Val(out[p].args[1]) = imt_size * c
                 /\ Declaring(out[p].args[1]) = {IfacePos(c)}

\* Helper names called in the timed loop body of the benchmark for C{c},
\* called in the warm-up block of C{c}, and declared for I0..I{c}.
Measured(c) ==
    LET p == CHOOSE q \in Pos(94) : Val(out[q].args[1]) = c + 1
    IN  {TestBody(p)[j].args[1] : j \in 1..Len(TestBody(p))}

Warmed(c) ==
    LET p == CHOOSE q \in Pos(86) : Val(out[q].args[1]) = c
    IN  {WarmCalls(p)[j].args[1] : j \in 1..Len(WarmCalls(p))}

DeclaredFor(c) == {out[p].args[1] : p \in {q \in Pos(107) : Val(out[q].args[2]) \in 0..c}}

Rank(s) ==
    CASE s = 59 -> 1
      [] s = 60 -> 2
      [] s = 73 -> 3
      [] s = 74 -> 4
      [] s \in 76..89 -> 5
      [] s \in 93..103 -> 6
      [] s = 107 -> 7
      [] s = 112 -> 8
      [] s \in 116..119 -> 9
      [] s = 121 -> 10
      [] OTHER -> 0

Count(o, k, s) == Cardinality({q \in 1..k : o[q].stmt = s})

\* Section r is complete within the first k lines of o.
Complete(o, k, r) ==
    CASE r = 5 -> /\ Count(o, k, 78) = 1
                  /\ Count(o, k, 84) = 1
                  /\ Count(o, k, 86) = max_conflict_depth
                  /\ o[k].stmt = 89
      [] r = 6 -> /\ Count(o, k, 94) = max_conflict_depth
                  /\ Count(o, k, 103) = max_conflict_depth
                  /\ o[k].stmt = 103
      [] r = 7 -> Count(o, k, 107) = max_conflict_depth
      [] r = 8 -> Count(o, k, 112) = max_conflict_depth
      [] r = 9 -> /\ Count(o, k, 116) = max_conflict_depth
                  /\ Count(o, k, 119) = max_conflict_depth
                  /\ o[k].stmt = 119
      [] OTHER -> Count(o, k, o[k].stmt) = 1

\* C8: on a successful run every step only appends lines, never a line of
\* an earlier section after a line of a later one; a section begins only
\* when the section before it is complete (license, package, imports, doc
\* comment, class opening with setup, 20 benchmarks with depths 01..20
\* increasing, 20 helpers, 20 classes, 20 interfaces, closing brace), and
\* the run finishes with the closing brace.
C8_SectionOrder ==
    [][ pc' # "exited" =>
          /\ Len(out') >= Len(out)
          /\ SubSeq(out', 1, Len(out)) = out
          /\ \A p \in (Len(out) + 1)..Len(out') :
               /\ Rank(out'[p].stmt) >= 1
               /\ p = 1 => Rank(out'[p].stmt) = 1
               /\ p > 1 =>
                    \/ Rank(out'[p].stmt) = Rank(out'[p - 1].stmt)
                    \/ /\ Rank(out'[p].stmt) = Rank(out'[p - 1].stmt) + 1
                       /\ Complete(out', p - 1, Rank(out'[p - 1].stmt))
               /\ out'[p].stmt = 94 =>
                    Val(out'[p].args[1]) = Count(out', p, 94)
          /\ (pc' = "done" /\ pc # "done") => out'[Len(out')].stmt = 121
      ]_vars

C8_Witness ==
    /\ Finished
    /\ imt_size = 1
    /\ out[Len(out)].stmt = 121
    /\ {Rank(out[p].stmt) : p \in 1..Len(out)} = 1..10

C10_CallsResolve ==
    (Finished /\ imt_size > 0) =>
        LET helpers == LinesOf(107)
            classes == LinesOf(112)
            calls == LinesOf(88) \o LinesOf(101)
        IN  /\ Len(calls) = Cardinality(Pos(88)) + Cardinality(Pos(101))
            /\ Len(calls) > 0
            /\ \A p \in 1..Len(calls) :
                 LET hs == {q \in 1..Len(helpers) : helpers[q].args[1] = calls[p].args[1]}
                     cl == {q \in 1..Len(classes) : classes[q].args[1] = calls[p].args[2]}
                 IN  /\ Cardinality(hs) = 1
                     /\ Cardinality(cl) = 1
                     /\ \A q \in hs, r \in cl :
                          LET impl == SplitList(classes[r].args[2], 1)
                          IN  /\ \E k \in 1..Len(impl) :
                                   impl[k] = <<"I">> \o helpers[q].args[2]
                              /\ Val(helpers[q].args[2]) <= Val(classes[r].args[1])

C10_Witness ==
    /\ Finished
    /\ imt_size = 2
    /\ \E p \in Pos(101) : out[p].args = << <<"3", "8">>, <<"1", "9">> >>
    /\ \E p \in Pos(88) : out[p].args = << <<"3", "8">>, <<"1", "9">> >>

====
